---- MODULE Spec2Model ----
(***************************************************************************)
(* Model of the crossword constraint solver of src/crossword/generate.py   *)
(* (class CrosswordCreator): node consistency, AC-3, the consistency       *)
(* checker, the ordering heuristics and the recursive backtracking search. *)
(*                                                                         *)
(* The method bodies are read at the indentation their def lines call for  *)
(* (the file's bodies are shifted left by one level).                      *)
(*                                                                         *)
(* Words are sequences of letters.  Python indexes words from 0; the model *)
(* indexes them from 1, so the overlap (i, j) of the code is <<i+1, j+1>>. *)
(* A Python set has no defined iteration order: crossword.variables is     *)
(* kept as one sequence (the order the set iterates in, from which ac3     *)
(* builds its queue), and the ties of the two stable sorts (slots of equal *)
(* key, words of equal count) are resolved by a nondeterministic choice.   *)
(* len(variable) is the slot's length.                                     *)
(***************************************************************************)
EXTENDS Integers, Sequences, FiniteSets, TLC

VARIABLES crossword, domains, assignment, stack, pc, result, ac3_ret,
          init_ac3, calls, tried, ev, queue

vars == <<crossword, domains, assignment, stack, pc, result, ac3_ret,
          init_ac3, calls, tried, ev, queue>>

----------------------------------------------------------------------------
(* Bounds of the explored inputs. *)

MaxSlots == 3

MaxWords == 2

Letters == {"a", "b"}

Lengths == 2..3

Positions == 1..2

----------------------------------------------------------------------------
(* The structural model (module crossword: Variable, Crossword). *)

Range(s) == {s[k] : k \in DOMAIN s}

None == <<"None">>

NoVar == [i |-> 0, j |-> 0, direction |-> "none", length |-> 0]

\* A slot: starting cell (i, j), direction and length.
Variable ==
    {[i |-> p, j |-> 1, direction |-> "across", length |-> l] :
        p \in Positions, l \in Lengths}
    \cup
    {[i |-> 1, j |-> p, direction |-> "down", length |-> l] :
        p \in Positions, l \in Lengths}

\* The overlap of two slots: the indices (from 1) of the cell an across and a
\* down slot share, in v1's word and in v2's word; None when they share none.
overlap_of(v1, v2) ==
    LET a == IF v1.direction = "across" THEN v1 ELSE v2
        d == IF v1.direction = "across" THEN v2 ELSE v1
        ka == d.j - a.j + 1
        kd == a.i - d.i + 1
    IN  IF v1.direction # v2.direction /\ ka \in 1..a.length /\ kd \in 1..d.length
        THEN IF v1.direction = "across" THEN <<ka, kd>> ELSE <<kd, ka>>
        ELSE None

\* Crossword(structure, words): the slots in iteration order, the vocabulary
\* and the table of overlaps of every pair of distinct slots.
Crossword(vs, ws) ==
    [variables |-> vs,
     words |-> ws,
     overlaps |-> [p \in {q \in Range(vs) \X Range(vs) : q[1] # q[2]} |->
                      overlap_of(p[1], p[2])]]

\* self.crossword.overlaps[v1, v2]
overlaps(cw, v1, v2) == cw.overlaps[<<v1, v2>>]

\* neighbors(var): the slots that overlap var.
neighbors(cw, var) ==
    {v \in Range(cw.variables) : v # var /\ overlaps(cw, v, var) # None}

\* neighbors(var) in the order the set iterates in.
neighbors_list(cw, var) ==
    SelectSeq(cw.variables, LAMBDA v : v \in neighbors(cw, var))

Rank(v) == (IF v.direction = "across" THEN 0 ELSE 10) + v.i + v.j

\* The grids: at most MaxSlots slots, no two on the same line.
Structures ==
    UNION {{s \in [1..n -> Variable] :
               \A a, b \in 1..n : a < b => Rank(s[a]) < Rank(s[b])} :
           n \in 0..MaxSlots}

AllWords == UNION {[1..n -> Letters] : n \in Lengths}

\* The vocabularies: at most MaxWords words.
Vocabularies == {ws \in SUBSET AllWords : Cardinality(ws) <= MaxWords}

Slots == Range(crossword.variables)

----------------------------------------------------------------------------
(* CrosswordCreator: the pure parts of each method.  cw is self.crossword, *)
(* doms is self.domains, a is the assignment.                              *)

\* __init__: every slot starts with a copy of the whole vocabulary.
initial_domains(cw) == [v \in Range(cw.variables) |-> cw.words]

\* enforce_node_consistency comparing with >= instead of ==.
enforce_node_consistency_ge(cw, doms) ==
    [variable \in DOMAIN doms |->
        {value \in doms[variable] : Len(value) >= variable.length}]

\* enforce_node_consistency: keep the words of the slot's length.
enforce_node_consistency(cw, doms) ==
    [variable \in DOMAIN doms |->
        {value \in doms[variable] : Len(value) = variable.length}]

\* revise with all() in place of any().
revise_all(cw, doms, x, y) ==
    LET overlap == overlaps(cw, x, y)
        kept == IF overlap = None
                THEN doms[x]
                ELSE {x_value \in doms[x] :
                        \A y_value \in doms[y] :
                            x_value[overlap[1]] = y_value[overlap[2]]}
    IN  [domains |-> [doms EXCEPT ![x] = kept],
         revised |-> kept # doms[x]]

\* revise leaving its loop after the first removal.
revise_once(cw, doms, x, y) ==
    LET overlap == overlaps(cw, x, y)
        dead == IF overlap = None
                THEN {}
                ELSE {x_value \in doms[x] :
                        ~ \E y_value \in doms[y] :
                            x_value[overlap[1]] = y_value[overlap[2]]}
        kept == IF dead = {}
                THEN doms[x]
                ELSE doms[x] \ {CHOOSE x_value \in dead : TRUE}
    IN  [domains |-> [doms EXCEPT ![x] = kept],
         revised |-> kept # doms[x]]

\* revise returning early when domains[y] is empty.
revise_skip_empty(cw, doms, x, y) ==
    LET overlap == overlaps(cw, x, y)
        kept == IF overlap = None \/ doms[y] = {}
                THEN doms[x]
                ELSE {x_value \in doms[x] :
                        \E y_value \in doms[y] :
                            x_value[overlap[1]] = y_value[overlap[2]]}
    IN  [domains |-> [doms EXCEPT ![x] = kept],
         revised |-> kept # doms[x]]

\* revise keeping words of domains[y] in place of words of domains[x].
revise_from_neighbor(cw, doms, x, y) ==
    LET overlap == overlaps(cw, x, y)
        kept == IF overlap = None
                THEN doms[x]
                ELSE {y_value \in doms[y] :
                        \E x_value \in doms[x] :
                            x_value[overlap[1]] = y_value[overlap[2]]}
    IN  [domains |-> [doms EXCEPT ![x] = kept],
         revised |-> kept # doms[x]]

\* revise reading both letters at x's index.
revise_same_index(cw, doms, x, y) ==
    LET overlap == overlaps(cw, x, y)
        kept == IF overlap = None
                THEN doms[x]
                ELSE {x_value \in doms[x] :
                        \E y_value \in doms[y] :
                            x_value[overlap[1]] = y_value[overlap[1]]}
    IN  [domains |-> [doms EXCEPT ![x] = kept],
         revised |-> kept # doms[x]]

\* revise(x, y): drop from domains[x] the words no word of domains[y] agrees
\* with at the overlap; revised tells whether a word was dropped.
revise(cw, doms, x, y) ==
    LET overlap == overlaps(cw, x, y)
        kept == IF overlap = None
                THEN doms[x]
                ELSE {x_value \in doms[x] :
                        \E y_value \in doms[y] :
                            x_value[overlap[1]] = y_value[overlap[2]]}
    IN  [domains |-> [doms EXCEPT ![x] = kept],
         revised |-> kept # doms[x]]

\* ac3 appending nothing after a revision.
requeue_nothing(cw, x, y) == <<>>

\* The arcs (z, x) appended after a revision of x against y.
requeue(cw, x, y) ==
    LET zs == SelectSeq(neighbors_list(cw, x), LAMBDA z : z # y)
    IN  [k \in 1..Len(zs) |-> <<zs[k], x>>]

RECURSIVE arcs_from(_, _)
\* [(x, y) for x in variables[k..] for y in neighbors(x)]
arcs_from(cw, k) ==
    IF k > Len(cw.variables)
    THEN <<>>
    ELSE LET x  == cw.variables[k]
             ys == neighbors_list(cw, x)
         IN  [m \in 1..Len(ys) |-> <<x, ys[m]>>] \o arcs_from(cw, k + 1)

\* The queue ac3 starts from when arcs is None.
default_arcs(cw) == arcs_from(cw, 1)

RECURSIVE ac3_loop(_, _, _)
\* The while loop of ac3: pop the first arc, revise, append, until empty.
ac3_loop(cw, doms, arcs) ==
    IF arcs = <<>>
    THEN doms
    ELSE LET x == Head(arcs)[1]
             y == Head(arcs)[2]
             r == revise(cw, doms, x, y)
         IN  IF r.revised
             THEN ac3_loop(cw, r.domains, Tail(arcs) \o requeue(cw, x, y))
             ELSE ac3_loop(cw, r.domains, Tail(arcs))

\* ac3(arcs): the domains it leaves and the boolean it returns.
ac3_arcs(cw, doms, arcs) ==
    LET final == ac3_loop(cw, doms, arcs)
    IN  [domains |-> final,
         ret |-> ~ \E var \in Range(cw.variables) : final[var] = {}]

\* ac3(): arcs is None.
ac3(cw, doms) == ac3_arcs(cw, doms, default_arcs(cw))

\* assignment_complete comparing with <= (subset) instead of ==.
assignment_complete_subset(cw, a) == DOMAIN a \subseteq Range(cw.variables)

\* assignment_complete
assignment_complete(cw, a) == DOMAIN a = Range(cw.variables)

\* consistent without the length test of lines 174-175.
consistent_no_length(cw, a) ==
    \A variable1 \in DOMAIN a :
        \A variable2 \in DOMAIN a :
            (variable1 # variable2 /\ overlaps(cw, variable1, variable2) # None)
            => LET overlap == overlaps(cw, variable1, variable2)
               IN  a[variable1][overlap[1]] = a[variable2][overlap[2]]

\* consistent
consistent(cw, a) ==
    \A variable1 \in DOMAIN a :
        /\ variable1.length = Len(a[variable1])
        /\ \A variable2 \in DOMAIN a :
              (variable1 # variable2 /\ overlaps(cw, variable1, variable2) # None)
              => LET overlap == overlaps(cw, variable1, variable2)
                 IN  a[variable1][overlap[1]] = a[variable2][overlap[2]]

RECURSIVE count_loop(_, _, _, _, _, _)
\* The loops of count_constrained_values over the neighbors still to visit
\* (lines 202-208): what they add to count.
count_loop(cw, doms, var, a, value, todo) ==
    IF todo = <<>>
    THEN 0
    ELSE LET neighbor == Head(todo)
             overlap  == overlaps(cw, var, neighbor)
             added    == IF neighbor \in DOMAIN a \/ overlap = None
                         THEN 0
                         ELSE Cardinality({neighbor_value \in doms[neighbor] :
                                  value[overlap[1]] # neighbor_value[overlap[2]]})
         IN  added + count_loop(cw, doms, var, a, value, Tail(todo))

\* count_constrained_values counting the words of assigned neighbors too.
count_constrained_values_assigned_too(cw, doms, var, a, value) ==
    count_loop(cw, doms, var, <<>>, value, neighbors_list(cw, var))

\* count_constrained_values(value) of order_domain_values.
count_constrained_values(cw, doms, var, a, value) ==
    count_loop(cw, doms, var, a, value, neighbors_list(cw, var))

\* The counts order_domain_values sorts by, one per word of domains[var].
sort_keys(cw, doms, var, a) ==
    [value \in doms[var] |-> count_constrained_values(cw, doms, var, a, value)]

Permutations_of(S) ==
    {s \in [1..Cardinality(S) -> S] :
        \A k, m \in 1..Cardinality(S) : k # m => s[k] # s[m]}

\* order_domain_values: the lists the stable sort can return (the order of
\* list(self.domains[var]) decides among words of equal count).
order_domain_values(cw, doms, var, a) ==
    {domain \in Permutations_of(doms[var]) :
        \A k \in 1..(Len(domain) - 1) :
            sort_keys(cw, doms, var, a)[domain[k]]
              <= sort_keys(cw, doms, var, a)[domain[k + 1]]}

\* The words that can come next in the sorted list, rest being the words
\* the for loop has not reached yet.
next_values(keys, rest) ==
    {value \in rest : \A other \in rest : keys[value] <= keys[other]}

\* The sort key without the domain size: degree only.
key_less_degree_only(cw, doms, u, v) ==
    Cardinality(neighbors(cw, u)) > Cardinality(neighbors(cw, v))

\* The sort key with len(neighbors) in place of -len(neighbors).
key_less_fewest_neighbors(cw, doms, u, v) ==
    \/ Cardinality(doms[u]) < Cardinality(doms[v])
    \/ /\ Cardinality(doms[u]) = Cardinality(doms[v])
       /\ Cardinality(neighbors(cw, u)) < Cardinality(neighbors(cw, v))

\* The sort key of select_unassigned_variable is smaller for u than for v.
key_less(cw, doms, u, v) ==
    \/ Cardinality(doms[u]) < Cardinality(doms[v])
    \/ /\ Cardinality(doms[u]) = Cardinality(doms[v])
       /\ Cardinality(neighbors(cw, u)) > Cardinality(neighbors(cw, v))

\* select_unassigned_variable: the slots the stable sort can put first
\* ({NoVar} stands for the None it returns when no slot is unassigned).
select_unassigned_variable(cw, doms, a) ==
    LET unassigned_variables == Range(cw.variables) \ DOMAIN a
    IN  IF unassigned_variables = {}
        THEN {NoVar}
        ELSE {var \in unassigned_variables :
                \A v \in unassigned_variables : ~ key_less(cw, doms, v, var)}

----------------------------------------------------------------------------
(* solve() as a state machine.  pc is the point solve() has reached; stack *)
(* holds one frame per active call of backtrack that is inside its for     *)
(* loop: the slot it selected, the counts its candidates were sorted by    *)
(* and the candidates the loop has not reached yet (the sorted list is any *)
(* list of order_domain_values: the loop takes next a word of least count  *)
(* among those left).  In a frame, before records the domains as they were *)
(* when the candidate in progress was added to the assignment;             *)
(* ev records what the last step did (and the domains before it, when it   *)
(* ran ac3 or gave up a candidate); calls and tried count the calls of     *)
(* backtrack and the candidates its loops have taken up; init_ac3 is the   *)
(* boolean the ac3() call of solve() returned.                             *)

NoEvent == [kind |-> "none", before |-> <<>>]

Assign(a, var, value) ==
    [v \in DOMAIN a \cup {var} |-> IF v = var THEN value ELSE a[v]]

\* The entry left in place.
Delete_nothing(a, var) == a

\* del assignment[var]
Delete(a, var) == [v \in DOMAIN a \ {var} |-> a[v]]

Top == stack[Len(stack)]

Pop == SubSeq(stack, 1, Len(stack) - 1)

\* The for loop staying on the same candidate.
NextCandidate_stay(frame, value) == [frame EXCEPT !.before = <<>>]

\* The for loop of line 250 moves past value.
NextCandidate(frame, value) ==
    [frame EXCEPT !.rest = frame.rest \ {value}, !.before = <<>>]

Init ==
    /\ crossword \in {Crossword(vs, ws) : vs \in Structures, ws \in Vocabularies}
    /\ domains = initial_domains(crossword)
    /\ assignment = <<>>
    /\ stack = <<>>
    /\ pc = "solve"
    /\ result = [returned |-> "pending", value |-> <<>>]
    /\ ac3_ret = "unset"
    /\ init_ac3 = "unset"
    /\ calls = 0
    /\ tried = 0
    /\ ev = NoEvent
    /\ queue = <<>>

\* solve, line 92: self.enforce_node_consistency()
EnforceNodeConsistency ==
    /\ pc = "solve"
    /\ domains' = enforce_node_consistency(crossword, domains)
    /\ pc' = "ac3"
    /\ ev' = NoEvent
    /\ UNCHANGED <<crossword, assignment, stack, result, ac3_ret, init_ac3,
                   calls, tried, queue>>

\* solve, line 93: self.ac3() (the boolean is dropped by solve)
InitialAc3 ==
    /\ pc = "ac3"
    /\ LET r == ac3(crossword, domains)
       IN  /\ domains' = r.domains
           /\ ac3_ret' = IF r.ret THEN "True" ELSE "False"
           /\ init_ac3' = IF r.ret THEN "True" ELSE "False"
    /\ pc' = "call"
    /\ ev' = [kind |-> "initial_ac3", before |-> domains]
    /\ UNCHANGED <<crossword, assignment, stack, result, calls, tried, queue>>

\* backtrack, lines 243-250: a call is entered (from solve with dict(), or
\* recursively); a complete assignment is returned, otherwise the slot is
\* selected, its candidates ordered and the for loop starts.  A frame
\* keeps in entry the assignment the call was entered with.
Enter ==
    /\ pc = "call"
    /\ IF assignment_complete(crossword, assignment)
       THEN /\ pc' = "return"
            /\ result' = [returned |-> "assignment", value |-> assignment]
            /\ stack' = stack
            /\ ev' = NoEvent
       ELSE /\ \E var \in select_unassigned_variable(crossword, domains, assignment) :
                  stack' = Append(stack,
                      [var |-> var,
                       keys |-> sort_keys(crossword, domains, var, assignment),
                       rest |-> domains[var],
                       before |-> <<>>,
                       entry |-> assignment])
            /\ pc' = "loop"
            /\ result' = result
            /\ ev' = [kind |-> "entered", before |-> <<>>]
    /\ UNCHANGED <<crossword, domains, assignment, ac3_ret, init_ac3, tried,
                   queue>>

\* backtrack entered, counted in calls.
BacktrackEnter == Enter /\ calls' = calls + 1

\* backtrack, lines 250-268: one iteration of the for loop up to the
\* recursive call: the consistency check (line 252, on the assignment as it
\* is before the entry is added), the tentative entry, ac3, and either the
\* recursive call or the removal of the entry.
TryValue ==
    /\ pc = "loop"
    /\ tried' = tried + 1
    /\ \E value \in next_values(Top.keys, Top.rest) :
         LET var == Top.var
         IN  IF consistent(crossword, assignment)
             THEN LET r == ac3(crossword, domains)
                  IN  /\ domains' = r.domains
                      /\ ac3_ret' = IF r.ret THEN "True" ELSE "False"
                      /\ IF r.ret
                         THEN /\ assignment' = Assign(assignment, var, value)
                              /\ stack' = [stack EXCEPT ![Len(stack)] =
                                     [NextCandidate(Top, value) EXCEPT !.before = domains]]
                              /\ pc' = "call"
                              /\ ev' = [kind |-> "added", before |-> domains]
                         ELSE /\ assignment' = Delete(Assign(assignment, var, value), var)
                              /\ stack' = [stack EXCEPT ![Len(stack)] = NextCandidate(Top, value)]
                              /\ pc' = "loop"
                              /\ ev' = [kind |-> "abandoned_ac3", before |-> domains]
             ELSE /\ stack' = [stack EXCEPT ![Len(stack)] = NextCandidate(Top, value)]
                  /\ pc' = "loop"
                  /\ ev' = [kind |-> "skipped", before |-> <<>>]
                  /\ UNCHANGED <<domains, assignment, ac3_ret>>
    /\ UNCHANGED <<crossword, result, init_ac3, calls, queue>>

\* backtrack, line 271: the for loop is over, return None.
ReturnNone ==
    /\ pc = "loop"
    /\ Top.rest = {}
    /\ stack' = Pop
    /\ result' = [returned |-> "None", value |-> <<>>]
    /\ pc' = "return"
    /\ ev' = [kind |-> "returned_none", before |-> Top.entry]
    /\ UNCHANGED <<crossword, domains, assignment, ac3_ret, init_ac3, calls,
                   tried, queue>>

\* backtrack, lines 261-268: the recursive call has returned to the frame on
\* top: a result is passed up, None removes the entry and the loop goes on.
AfterRecursion ==
    /\ pc = "return"
    /\ stack # <<>>
    /\ IF result.returned = "assignment"
       THEN /\ stack' = Pop
            /\ pc' = "return"
            /\ assignment' = assignment
            /\ ev' = NoEvent
       ELSE /\ assignment' = Delete(assignment, Top.var)
            /\ stack' = [stack EXCEPT ![Len(stack)].before = <<>>]
            /\ pc' = "loop"
            /\ ev' = [kind |-> "abandoned_rec", before |-> Top.before]
    /\ UNCHANGED <<crossword, domains, result, ac3_ret, init_ac3, calls, tried,
                   queue>>

\* solve, line 94: the outermost backtrack has returned; solve returns.
SolveReturn ==
    /\ pc = "return"
    /\ stack = <<>>
    /\ pc' = "done"
    /\ ev' = NoEvent
    /\ UNCHANGED <<crossword, domains, assignment, stack, result, ac3_ret,
                   init_ac3, calls, tried, queue>>

Next ==
    \/ EnforceNodeConsistency
    \/ InitialAc3
    \/ BacktrackEnter
    \/ TryValue
    \/ ReturnNone
    \/ AfterRecursion
    \/ SolveReturn

Spec == Init /\ [][Next]_vars

----------------------------------------------------------------------------
(* solve() with the while loop of ac3 taken one arc at a time: queue is    *)
(* the list ac3 pops from, and ev keeps the domains the running ac3 call   *)
(* started from.  The calls of backtrack and the candidates are not        *)
(* counted here (calls and tried stay 0).                                  *)

\* ac3, line 142, called by solve (line 93): the queue of all arcs.
Ac3Begin ==
    /\ pc = "ac3"
    /\ queue' = default_arcs(crossword)
    /\ pc' = "ac3_loop"
    /\ ev' = [kind |-> "ac3_running", before |-> domains]
    /\ UNCHANGED <<crossword, domains, assignment, stack, result, ac3_ret,
                   init_ac3, calls, tried>>

\* backtrack entered, not counted.
StepEnter == Enter /\ UNCHANGED calls

\* backtrack, lines 250-257: one iteration of the for loop up to the call
\* of ac3 (line 142: the queue of all arcs).
TryBegin ==
    /\ pc = "loop"
    /\ \E value \in next_values(Top.keys, Top.rest) :
         IF consistent(crossword, assignment)
         THEN /\ assignment' = Assign(assignment, Top.var, value)
              /\ stack' = [stack EXCEPT ![Len(stack)] =
                     [NextCandidate(Top, value) EXCEPT !.before = domains]]
              /\ queue' = default_arcs(crossword)
              /\ pc' = "ac3_loop"
              /\ ev' = [kind |-> "ac3_running", before |-> domains]
         ELSE /\ stack' = [stack EXCEPT ![Len(stack)] = NextCandidate(Top, value)]
              /\ pc' = "loop"
              /\ ev' = [kind |-> "skipped", before |-> <<>>]
              /\ UNCHANGED <<assignment, queue>>
    /\ UNCHANGED <<crossword, domains, result, ac3_ret, init_ac3, calls, tried>>

\* ac3, lines 145-153: one turn of the while loop.
Ac3Revise ==
    /\ pc = "ac3_loop"
    /\ queue # <<>>
    /\ LET x == Head(queue)[1]
           y == Head(queue)[2]
           r == revise(crossword, domains, x, y)
       IN  /\ domains' = r.domains
           /\ queue' = IF r.revised
                       THEN Tail(queue) \o requeue(crossword, x, y)
                       ELSE Tail(queue)
    /\ UNCHANGED <<crossword, assignment, stack, pc, result, ac3_ret, init_ac3,
                   calls, tried, ev>>

\* ac3, lines 156-159: the queue is empty, ac3 returns; then solve goes on
\* to backtrack (line 94), or backtrack recurses (line 260) or removes the
\* entry (line 268).
Ac3Return ==
    /\ pc = "ac3_loop"
    /\ queue = <<>>
    /\ LET ret == ~ \E var \in Slots : domains[var] = {}
       IN  /\ ac3_ret' = IF ret THEN "True" ELSE "False"
           /\ IF stack = <<>>
              THEN /\ init_ac3' = IF ret THEN "True" ELSE "False"
                   /\ pc' = "call"
                   /\ ev' = [kind |-> "initial_ac3", before |-> ev.before]
                   /\ UNCHANGED <<assignment, stack>>
              ELSE IF ret
                   THEN /\ pc' = "call"
                        /\ ev' = [kind |-> "added", before |-> ev.before]
                        /\ UNCHANGED <<assignment, stack, init_ac3>>
                   ELSE /\ assignment' = Delete(assignment, Top.var)
                        /\ stack' = [stack EXCEPT ![Len(stack)].before = <<>>]
                        /\ pc' = "loop"
                        /\ ev' = [kind |-> "abandoned_ac3", before |-> ev.before]
                        /\ UNCHANGED init_ac3
    /\ UNCHANGED <<crossword, domains, result, calls, tried, queue>>

NextSteps ==
    \/ EnforceNodeConsistency
    \/ Ac3Begin
    \/ StepEnter
    \/ TryBegin
    \/ Ac3Revise
    \/ Ac3Return
    \/ ReturnNone
    \/ AfterRecursion
    \/ SolveReturn

\* One thread runs solve(): it takes its next step whenever it has one.
SpecSteps == Init /\ [][NextSteps]_vars /\ WF_vars(NextSteps)

----------------------------------------------------------------------------
(* ac3() with its queue popped in any order: the first ac3() of solve(),   *)
(* one arc at a time, where the arc revised next is any arc of the queue   *)
(* (the code pops the first, k = 1).                                       *)

Remove(q, k) == SubSeq(q, 1, k - 1) \o SubSeq(q, k + 1, Len(q))

\* ac3, lines 145-153, with queue.pop(k) for any k in place of pop(0).
PopAny ==
    /\ pc = "ac3_loop"
    /\ \E k \in 1..Len(queue) :
          LET x == queue[k][1]
              y == queue[k][2]
              r == revise(crossword, domains, x, y)
          IN  /\ domains' = r.domains
              /\ queue' = IF r.revised
                          THEN Remove(queue, k) \o requeue(crossword, x, y)
                          ELSE Remove(queue, k)
    /\ UNCHANGED <<crossword, assignment, stack, pc, result, ac3_ret, init_ac3,
                   calls, tried, ev>>

\* ac3, lines 156-159: the queue is empty, ac3 returns its boolean.
QueueReturn ==
    /\ pc = "ac3_loop"
    /\ queue = <<>>
    /\ ac3_ret' = IF \E var \in Slots : domains[var] = {} THEN "False" ELSE "True"
    /\ pc' = "ac3_done"
    /\ ev' = [kind |-> "ac3_any", before |-> ev.before]
    /\ UNCHANGED <<crossword, domains, assignment, stack, result, init_ac3,
                   calls, tried, queue>>

NextQueue ==
    \/ EnforceNodeConsistency
    \/ Ac3Begin
    \/ PopAny
    \/ QueueReturn

SpecQueue == Init /\ [][NextQueue]_vars

----------------------------------------------------------------------------
(* consistent(assignment) called on its own, with any assignment of        *)
(* vocabulary words (of any length) to some of the slots.                  *)

Assignments(cw) ==
    UNION {[S -> cw.words] : S \in SUBSET Range(cw.variables)}

InitConsistent ==
    /\ crossword \in {Crossword(vs, ws) : vs \in Structures, ws \in Vocabularies}
    /\ domains = initial_domains(crossword)
    /\ assignment \in Assignments(crossword)
    /\ stack = <<>>
    /\ pc = "consistent"
    /\ result = [returned |-> "pending", value |-> <<>>]
    /\ ac3_ret = "unset"
    /\ init_ac3 = "unset"
    /\ calls = 0
    /\ tried = 0
    /\ ev = NoEvent
    /\ queue = <<>>

\* consistent, lines 168-187: the call and the boolean it returns; ev keeps
\* the assignment and the domains the call was made with.
CallConsistent ==
    /\ pc = "consistent"
    /\ result' = [returned |-> IF consistent(crossword, assignment)
                                THEN "True" ELSE "False",
                  value |-> <<>>]
    /\ pc' = "consistent_done"
    /\ ev' = [kind |-> "consistent", before |-> <<assignment, domains>>]
    /\ UNCHANGED <<crossword, domains, assignment, stack, ac3_ret, init_ac3,
                   calls, tried, queue>>

NextConsistent == CallConsistent

SpecConsistent == InitConsistent /\ [][NextConsistent]_vars

----------------------------------------------------------------------------
(* order_domain_values(var, assignment) called on its own: with any        *)
(* domains of words of the slots' lengths, any assignment of such words    *)
(* and any unassigned slot.  result holds the list returned, ev the slot.  *)

Stores(cw) ==
    {doms \in [Range(cw.variables) -> SUBSET cw.words] :
        \A v \in Range(cw.variables) : \A w \in doms[v] : Len(w) = v.length}

InitOrder ==
    /\ crossword \in {Crossword(vs, ws) : vs \in Structures, ws \in Vocabularies}
    /\ domains \in Stores(crossword)
    /\ assignment \in {a \in Assignments(crossword) :
                          \A v \in DOMAIN a : Len(a[v]) = v.length}
    /\ stack = <<>>
    /\ pc = "order"
    /\ result = [returned |-> "pending", value |-> <<>>]
    /\ ac3_ret = "unset"
    /\ init_ac3 = "unset"
    /\ calls = 0
    /\ tried = 0
    /\ ev = NoEvent
    /\ queue = <<>>

\* order_domain_values, lines 189-214: the call and the list it returns.
CallOrder ==
    /\ pc = "order"
    /\ \E var \in Slots \ DOMAIN assignment :
          \E domain \in order_domain_values(crossword, domains, var, assignment) :
              /\ result' = [returned |-> "list", value |-> domain]
              /\ ev' = [kind |-> "ordered", before |-> var]
    /\ pc' = "order_done"
    /\ UNCHANGED <<crossword, domains, assignment, stack, ac3_ret, init_ac3,
                   calls, tried, queue>>

NextOrder == CallOrder

SpecOrder == InitOrder /\ [][NextOrder]_vars

----------------------------------------------------------------------------
(* The properties. *)

\* The vocabulary words of a slot's length: its domain after node consistency.
NodeConsistent(v) == {w \in crossword.words : Len(w) = v.length}

\* a assigns words of the right length that agree at every overlap.
Valid(a) ==
    /\ \A v \in DOMAIN a : Len(a[v]) = v.length
    /\ \A v1, v2 \in DOMAIN a :
          (v1 # v2 /\ overlaps(crossword, v1, v2) # None)
          => a[v1][overlaps(crossword, v1, v2)[1]] = a[v2][overlaps(crossword, v1, v2)[2]]

SolutionExists == \E a \in [Slots -> crossword.words] : Valid(a)

Returned == pc = "done"

\* The last step ran ac3(): the call of solve(), or one of backtrack.
JustRanAc3 == ev.kind \in {"initial_ac3", "added", "abandoned_ac3"}

\* The last step gave up a candidate it had added to the assignment.
Abandoned == ev.kind \in {"abandoned_ac3", "abandoned_rec"}

\* C1: whenever solve() returns an assignment, it has an entry for every
\* slot, every word has its slot's length and the words agree at every
\* overlap.
C1_Soundness ==
    (Returned /\ result.returned = "assignment")
    => (DOMAIN result.value = Slots /\ Valid(result.value))

\* C2: when a complete consistent assignment exists, solve() does not
\* return None.
C2_Completeness ==
    (Returned /\ SolutionExists) => result.returned = "assignment"

C2_Witness ==
    /\ Returned
    /\ SolutionExists
    /\ result.returned = "assignment"
    /\ Cardinality(Slots) = 3
    /\ tried > 3

\* C3: each time a candidate has been tried and abandoned, the domains are
\* what they were just before the candidate was added to the assignment.
C3_BacktrackRestoration ==
    Abandoned => domains = ev.before

C3_Witness ==
    /\ Abandoned
    /\ assignment # <<>>
    /\ \A v \in Slots : domains[v] # {}

\* C4: after an ac3() that returned True, every word of every domain has a
\* word agreeing with it at the overlap in the domain of every neighbor.
C4_ArcConsistent ==
    (JustRanAc3 /\ ac3_ret = "True")
    => \A X \in Slots : \A Y \in neighbors(crossword, X) :
          \A x \in domains[X] : \E y \in domains[Y] :
              x[overlaps(crossword, X, Y)[1]] = y[overlaps(crossword, X, Y)[2]]

C4_Witness ==
    /\ ev.kind = "initial_ac3"
    /\ ac3_ret = "True"
    /\ \E X \in Slots : neighbors(crossword, X) # {} /\ domains[X] # NodeConsistent(X)

\* C5 as stated: when the ac3() of solve() returned False, backtrack is not
\* called.
C5_Original == init_ac3 = "False" => calls = 0

\* C5 amended: when the ac3() of solve() returned False, backtrack is called
\* once, on the empty assignment; it takes up no candidate, adds no entry
\* and returns None, which solve() returns.
C5_Amended ==
    init_ac3 = "False"
    => /\ calls <= 1
       /\ tried = 0
       /\ assignment = <<>>
       /\ Returned => (calls = 1 /\ result.returned = "None")

C5_Witness ==
    /\ Returned
    /\ init_ac3 = "False"
    /\ calls = 1
    /\ \E v \in Slots : NodeConsistent(v) # {}

\* C6: solve() returns None or a mapping whose keys are exactly the slots,
\* each mapped to one vocabulary word.
C6_NoPartialResult ==
    Returned
    => \/ result.returned = "None"
       \/ /\ result.returned = "assignment"
          /\ DOMAIN result.value = Slots
          /\ \A v \in Slots : result.value[v] \in crossword.words

C6_Witness ==
    /\ Returned
    /\ result.returned = "assignment"
    /\ Cardinality(Slots) >= 2

\* C7: right after enforce_node_consistency, every domain is exactly the set
\* of vocabulary words of the slot's length.
C7_NodeConsistency ==
    pc = "ac3" => \A v \in Slots : domains[v] = NodeConsistent(v)

C7_Witness ==
    /\ pc = "ac3"
    /\ \E v \in Slots : domains[v] # {} /\ domains[v] # crossword.words

\* C8: once ac3() has run, running ac3() again removes no word and returns
\* the same boolean.
C8_Ac3Idempotent ==
    JustRanAc3
    => LET again == ac3(crossword, domains)
       IN  again.domains = domains /\ again.ret = (ac3_ret = "True")

C8_Witness ==
    /\ ev.kind = "added"
    /\ \E X \in Slots : domains[X] # {} /\ domains[X] # NodeConsistent(X)

\* C9: with at least one slot, if some slot has no vocabulary word of its
\* length, solve() returns None.
C9_EmptyDomainUnsat ==
    (Returned /\ \E v \in Slots : NodeConsistent(v) = {})
    => result.returned = "None"

C9_Witness ==
    /\ Returned
    /\ \E v \in Slots : NodeConsistent(v) = {}
    /\ \E v \in Slots : NodeConsistent(v) # {}
    /\ result.returned = "None"

\* Two overlapping slots whose node-consistent domains hold no agreeing pair.
Incompatible(A, B) ==
    /\ A # B
    /\ overlaps(crossword, A, B) # None
    /\ ~ \E a \in NodeConsistent(A), b \in NodeConsistent(B) :
            a[overlaps(crossword, A, B)[1]] = b[overlaps(crossword, A, B)[2]]

\* C10: for two overlapping slots whose node-consistent domains hold no
\* agreeing pair, the ac3() of solve() leaves both domains empty and
\* returns False.
C10_IncompatiblePair ==
    ev.kind = "initial_ac3"
    => \A A, B \in Slots :
          Incompatible(A, B)
          => (domains[A] = {} /\ domains[B] = {} /\ init_ac3 = "False")

C10_Witness ==
    /\ ev.kind = "initial_ac3"
    /\ \E A, B \in Slots :
          /\ Incompatible(A, B)
          /\ NodeConsistent(A) # {}
          /\ NodeConsistent(B) # {}

\* C11: a tentative entry is added only when the assignment extended with it
\* is consistent, so every assignment ac3 is re-run on, and backtrack
\* recurses on, is consistent.
C11_AddedConsistent ==
    ev.kind = "added" => consistent(crossword, assignment)

\* C12: consistent(assignment) returns True exactly when every assigned word
\* has its slot's length and the words of every two distinct assigned slots
\* that overlap agree at the shared cell; the call changes neither the
\* assignment nor the domains.
C12_ConsistentIff ==
    pc = "consistent_done"
    => /\ (result.returned = "True") <=> Valid(assignment)
       /\ <<assignment, domains>> = ev.before

C12_Witness ==
    /\ pc = "consistent_done"
    /\ result.returned = "True"
    /\ \E v1, v2 \in DOMAIN assignment :
          /\ v1 # v2
          /\ overlaps(crossword, v1, v2) # None
          /\ assignment[v1] # assignment[v2]

\* C13: solve() eventually returns, and every call of ac3 comes to an empty
\* queue after finitely many turns of its loop.
C13_Termination ==
    /\ <>(pc = "done")
    /\ (pc = "ac3_loop") ~> (pc = "ac3_loop" /\ queue = <<>>)

C13_Witness ==
    /\ pc = "done"
    /\ result.returned = "assignment"
    /\ Cardinality(Slots) = 3
    /\ \E v \in Slots : neighbors(crossword, v) # {} /\ Cardinality(domains[v]) > 1

\* C14: whichever arc of the queue ac3 revises at each step, it ends with
\* the domains and the boolean that popping first-in-first-out gives from
\* the same domains and the same arcs.
C14_QueueOrderIndependent ==
    pc = "ac3_done"
    => LET fifo == ac3(crossword, ev.before)
       IN  /\ domains = fifo.domains
           /\ ac3_ret = IF fifo.ret THEN "True" ELSE "False"

C14_Witness ==
    /\ pc = "ac3_done"
    /\ Cardinality(Slots) = 3
    /\ \E v \in Slots : domains[v] # ev.before[v] /\ domains[v] # {}
    /\ \E v \in Slots : neighbors(crossword, v) # {} /\ domains[v] = ev.before[v]

\* C15: the slot select_unassigned_variable returns is unassigned, no
\* unassigned slot has a smaller domain, and no unassigned slot with a
\* domain of the same size has more neighbors; it returns None exactly when
\* no slot is unassigned.
C15_SelectUnassigned ==
    /\ ev.kind = "entered"
       => LET var == Top.var
              unassigned == Slots \ DOMAIN assignment
          IN  /\ var \in unassigned
              /\ \A v \in unassigned :
                    /\ Cardinality(domains[var]) <= Cardinality(domains[v])
                    /\ Cardinality(domains[v]) = Cardinality(domains[var])
                       => Cardinality(neighbors(crossword, v))
                            <= Cardinality(neighbors(crossword, var))
    /\ pc = "call"
       => ((select_unassigned_variable(crossword, domains, assignment) = {NoVar})
            <=> (Slots \ DOMAIN assignment = {}))

C15_Witness ==
    /\ ev.kind = "entered"
    /\ assignment # <<>>
    /\ \E v \in Slots \ DOMAIN assignment :
          /\ Cardinality(domains[v]) = Cardinality(domains[Top.var])
          /\ Cardinality(neighbors(crossword, v))
               < Cardinality(neighbors(crossword, Top.var))

\* The number of pairs (N, n), N an unassigned neighbor of var and n a word
\* of N's domain, such that w and n differ at the cell var and N share.
Cost(var, a, w) ==
    Cardinality(
        {p \in UNION {{<<N, n>> : n \in domains[N]} :
                        N \in neighbors(crossword, var) \ DOMAIN a} :
            w[overlaps(crossword, var, p[1])[1]]
              # p[2][overlaps(crossword, var, p[1])[2]]})

\* C16: order_domain_values returns the words of domains[var], each once,
\* in non-decreasing order of the number of words of unassigned neighbors'
\* domains they disagree with; assigned neighbors count for nothing.
C16_OrderDomainValues ==
    pc = "order_done"
    => LET var    == ev.before
           domain == result.value
       IN  /\ Len(domain) = Cardinality(domains[var])
           /\ Range(domain) = domains[var]
           /\ \A k \in 1..(Len(domain) - 1) :
                 Cost(var, assignment, domain[k])
                   <= Cost(var, assignment, domain[k + 1])

C16_Witness ==
    /\ pc = "order_done"
    /\ \E N \in neighbors(crossword, ev.before) :
          N \in DOMAIN assignment /\ Cardinality(domains[N]) > 1
    /\ \E N \in neighbors(crossword, ev.before) : N \notin DOMAIN assignment
    /\ Len(result.value) > 1
    /\ Cost(ev.before, assignment, result.value[1])
         < Cost(ev.before, assignment, result.value[Len(result.value)])

\* C17: when a call of backtrack returns None, the assignment holds exactly
\* the entries it held when the call was entered; after a solve() that
\* failed the assignment is empty.  (Between two candidates of its loop a
\* call already has the assignment it was entered with: each entry it added
\* is removed when the candidate is given up.)
C17_AssignmentUndo ==
    /\ ev.kind = "returned_none" => assignment = ev.before
    /\ (Returned /\ result.returned = "None") => assignment = <<>>
    /\ pc = "loop" => assignment = Top.entry

C17_Witness ==
    /\ ev.kind = "returned_none"
    /\ assignment # <<>>
    /\ \A v \in Slots : domains[v] # {}

\* C18: once enforce_node_consistency has run, every domain holds only
\* vocabulary words of its slot's length, and a run of ac3 (its revise
\* steps) only removes words from the domains.
C18_DomainInvariant ==
    /\ pc # "solve" => \A v \in Slots : domains[v] \subseteq NodeConsistent(v)
    /\ JustRanAc3 => \A v \in Slots : domains[v] \subseteq ev.before[v]

C18_Witness ==
    /\ ev.kind = "initial_ac3"
    /\ \E v \in Slots : domains[v] # NodeConsistent(v) /\ domains[v] # {}

\* C19: every ac3() the search runs leaves the domains as they were before
\* it (no other step of the search writes them), and returns the boolean
\* the first ac3() of solve() returned.
C19_SearchKeepsDomains ==
    /\ ev.kind \in {"added", "abandoned_ac3"} => domains = ev.before
    /\ init_ac3 # "unset" => ac3_ret = init_ac3

C19_Witness ==
    /\ ev.kind = "added"
    /\ ev.before = domains
    /\ Cardinality(DOMAIN assignment) > 1
    /\ \E v \in Slots : domains[v] # NodeConsistent(v)

====
